---- MODULE Spec2Model ----
(***************************************************************************)
(* Configuration validation and dependency health subsystems of the        *)
(* Individual AI-R Platform lab.                                           *)
(*                                                                         *)
(* The model covers the Settings schema (config_settings.py), its          *)
(* field-level constraints, the validate_weight_sums model validator, the  *)
(* lru_cache'd get_settings() lookup, the places of the dashboard and its  *)
(* tests that hold or touch a Settings object, and the health endpoints    *)
(* (source.py): the three probe coroutines run under asyncio.gather, the   *)
(* aggregation of their results, readiness and liveness.                   *)
(*                                                                         *)
(* Numbers: every float field is represented in thousandths (0.45 is 450,  *)
(* 1.0 is 1000, the tolerance 0.001 is 1).  Sums and comparisons are the   *)
(* ones the code writes, carried out exactly on these decimals; the        *)
(* rounding of binary floating point, which is below 1e-15 and can only    *)
(* matter for a sum that sits exactly on the tolerance, is not modelled.   *)
(***************************************************************************)
EXTENDS Integers, Sequences, FiniteSets, TLC

VARIABLES
    env,              \* os.environ restricted to the Settings fields
    heap,             \* the Settings objects that are still referenced
    cache,            \* the lru_cache slot of get_settings: 0 or an object
    settings_object,  \* st.session_state.settings_object: 0 or an object
    result,           \* outcome of the last Settings() / get_settings() call
    last_op,          \* the operation that produced the current state
    hist,             \* returns of get_settings since the last cache_clear
    app,              \* the module that defines the application: its import
    settings,         \* the module-level name settings: 0 or an object
    probes,           \* the three probe coroutines of the current gather
    hc,               \* the detailed health check in progress
    response,         \* the answer to the last request on a health endpoint
    session,          \* st.session_state: the page and the recorded outputs
    app_instance,     \* the FastAPI instance create_app_notebook returned
    exchange          \* the last request served by app_instance, with its response

cvars == <<env, heap, cache, settings_object, result, last_op, hist>>
hvars == <<app, settings, probes, hc, response>>
xvars == <<session, app_instance, exchange>>
vars == <<env, heap, cache, settings_object, result, last_op, hist,
          app, settings, probes, hc, response,
          session, app_instance, exchange>>

----------------------------------------------------------------------------
(* Bounds of the model *)

MaxOverrides == 3     \* overrides set at once when Settings() is exercised
MaxObjects == 2       \* Settings objects built by get_settings in one run

----------------------------------------------------------------------------
(* The schema: config_settings.py:8-117 *)

FloatFields ==
    {"DAILY_COST_BUDGET_USD", "COST_ALERT_THRESHOLD_PCT",
     "ALPHA_VR_WEIGHT", "BETA_SYNERGY_COEF",
     "W_FLUENCY", "W_DOMAIN", "W_ADAPTIVE",
     "THETA_TECHNICAL", "THETA_PRODUCTIVITY", "THETA_JUDGMENT",
     "THETA_VELOCITY", "DELTA_POSITION", "GAMMA_EXPERIENCE"}

LiteralFields == {"APP_ENV", "LOG_LEVEL"}

SecretFields ==
    {"OPENAI_API_KEY", "ANTHROPIC_API_KEY", "ONET_API_KEY", "BLS_API_KEY",
     "LANGSMITH_API_KEY"}

\* bool fields, and the strings a bool is parsed from (case folded)
BoolFields == {"DEBUG"}
TrueStrings == {"1", "true", "t", "yes", "y", "on"}
FalseStrings == {"0", "false", "f", "no", "n", "off"}

Fields == FloatFields \cup LiteralFields \cup SecretFields \cup BoolFields

WeightFields ==
    {"W_FLUENCY", "W_DOMAIN", "W_ADAPTIVE", "THETA_TECHNICAL",
     "THETA_PRODUCTIVITY", "THETA_JUDGMENT", "THETA_VELOCITY"}

\* Field(ge=...)
Ge(f) ==
    CASE f = "ALPHA_VR_WEIGHT" -> 500
      [] f = "BETA_SYNERGY_COEF" -> 50
      [] f = "DELTA_POSITION" -> 100
      [] f = "GAMMA_EXPERIENCE" -> 100
      [] OTHER -> 0

\* Field(le=...); DAILY_COST_BUDGET_USD has no upper bound
HasLe(f) == f # "DAILY_COST_BUDGET_USD"

Le(f) ==
    CASE f = "ALPHA_VR_WEIGHT" -> 700
      [] f = "BETA_SYNERGY_COEF" -> 200
      [] f = "DELTA_POSITION" -> 200
      [] f = "GAMMA_EXPERIENCE" -> 250
      [] OTHER -> 1000

\* Literal[...]
Allowed(f) ==
    IF f = "APP_ENV" THEN {"development", "staging", "production"}
    ELSE {"DEBUG", "INFO", "WARNING", "ERROR"}

\* A secret-typed value: wrapped is TRUE for a SecretStr, FALSE for a bare str
SecretStr(s) == [wrapped |-> TRUE, value |-> s]
RawStr(s) == [wrapped |-> FALSE, value |-> s]
None == [wrapped |-> FALSE, value |-> "None"]

\* The defaults as the class body declares them: OPENAI_API_KEY and
\* ANTHROPIC_API_KEY are given bare strings.
Default(f) ==
    CASE f = "APP_ENV" -> "development"
      [] f = "LOG_LEVEL" -> "INFO"
      [] f = "DEBUG" -> FALSE
      [] f = "OPENAI_API_KEY" -> RawStr("sk-xxxx")
      [] f = "ANTHROPIC_API_KEY" -> RawStr("anthropic-xxxx")
      [] f = "ONET_API_KEY" -> None
      [] f = "BLS_API_KEY" -> None
      [] f = "LANGSMITH_API_KEY" -> None
      [] f = "DAILY_COST_BUDGET_USD" -> 100000
      [] f = "COST_ALERT_THRESHOLD_PCT" -> 800
      [] f = "ALPHA_VR_WEIGHT" -> 600
      [] f = "BETA_SYNERGY_COEF" -> 150
      [] f = "W_FLUENCY" -> 450
      [] f = "W_DOMAIN" -> 350
      [] f = "W_ADAPTIVE" -> 200
      [] f = "THETA_TECHNICAL" -> 300
      [] f = "THETA_PRODUCTIVITY" -> 350
      [] f = "THETA_JUDGMENT" -> 200
      [] f = "THETA_VELOCITY" -> 150
      [] f = "DELTA_POSITION" -> 150
      [] f = "GAMMA_EXPERIENCE" -> 150

----------------------------------------------------------------------------
(* Overrides: the values an environment variable can carry *)

Unset == [k |-> "unset"]
Num(n) == [k |-> "num", n |-> n]      \* a string that parses as the decimal n
Text(s) == [k |-> "text", s |-> s]    \* any other string

\* The override values the model draws from, per field
Candidates(f) ==
    CASE f = "W_FLUENCY" -> {Num(500), Num(330), Num(1500), Num(451), Num(452), Text("abc")}
      [] f = "W_DOMAIN" -> {Num(400), Num(330), Num(300), Num(349), Num(348)}
      [] f = "W_ADAPTIVE" -> {Num(200), Num(340), Num(0), Num(-100)}
      [] f = "THETA_TECHNICAL" -> {Num(500), Num(250), Num(301), Num(302)}
      [] f = "THETA_PRODUCTIVITY" -> {Num(300), Num(250), Num(1200)}
      [] f = "THETA_JUDGMENT" -> {Num(200), Num(250)}
      [] f = "THETA_VELOCITY" -> {Num(100), Num(250)}
      [] f = "DAILY_COST_BUDGET_USD" -> {Num(0), Num(-1000), Num(250000)}
      [] f = "COST_ALERT_THRESHOLD_PCT" -> {Num(0), Num(1000), Num(1001)}
      [] f = "ALPHA_VR_WEIGHT" -> {Num(500), Num(700), Num(499), Num(701)}
      [] f = "BETA_SYNERGY_COEF" -> {Num(50), Num(200), Num(49), Num(201)}
      [] f = "DELTA_POSITION" -> {Num(100), Num(200), Num(99), Num(201)}
      [] f = "GAMMA_EXPERIENCE" -> {Num(100), Num(250), Num(99), Num(251)}
      [] f = "APP_ENV" -> {Text("staging"), Text("production"), Text("test")}
      [] f = "LOG_LEVEL" -> {Text("DEBUG"), Text("ERROR"), Text("TRACE")}
      [] f = "DEBUG" -> {Text("true"), Text("maybe")}
      [] f = "OPENAI_API_KEY" -> {Text("sk-dummykey123"), Text("sk-abc123")}
      [] f = "ANTHROPIC_API_KEY" -> {Text("anthropic-key1")}
      [] f = "ONET_API_KEY" -> {Text("onet-key1")}
      [] f = "BLS_API_KEY" -> {Text("bls-key1")}
      [] f = "LANGSMITH_API_KEY" -> {Text("ls-key1")}

----------------------------------------------------------------------------
(* Field-level validation: coercion, then Field(ge, le) / Literal *)

\* FieldError with the upper bounds left out
FieldError_ge_only(f, v) ==
    IF f \in FloatFields
    THEN v.k # "num" \/ v.n < Ge(f)
    ELSE IF f \in LiteralFields
    THEN v.k # "text" \/ v.s \notin Allowed(f)
    ELSE IF f \in BoolFields
    THEN v.k # "text" \/ v.s \notin TrueStrings \cup FalseStrings
    ELSE FALSE

\* TRUE iff override v of field f is rejected at field level
FieldError(f, v) ==
    IF f \in FloatFields
    THEN \/ v.k # "num"                      \* float parsing fails
         \/ v.n < Ge(f)
         \/ (HasLe(f) /\ v.n > Le(f))
    ELSE IF f \in LiteralFields
    THEN v.k # "text" \/ v.s \notin Allowed(f)
    ELSE IF f \in BoolFields
    THEN v.k # "text" \/ v.s \notin TrueStrings \cup FalseStrings
    ELSE FALSE                               \* Optional[SecretStr]

\* Validation of a declared default.  BaseSettings validates defaults
\* (validate_default is on in its model_config, which the Settings class
\* extends without turning it off): a bare str declared for an
\* Optional[SecretStr] field is coerced to a SecretStr, None stays None.
\* The numeric and Literal defaults are valid as declared.
ValidatedDefault(f) ==
    IF f \in SecretFields /\ Default(f) # None
    THEN SecretStr(Default(f).value)
    ELSE Default(f)

\* FieldValue with the declared defaults taken over as they are
FieldValue_default_unvalidated(f, v) ==
    IF v = Unset THEN Default(f)
    ELSE IF f \in FloatFields THEN v.n
    ELSE IF f \in LiteralFields THEN v.s
    ELSE IF f \in BoolFields THEN v.s \in TrueStrings
    ELSE SecretStr(v.s)

\* The value field f takes from a valid override v, or from its default
FieldValue(f, v) ==
    IF v = Unset THEN ValidatedDefault(f)
    ELSE IF f \in FloatFields THEN v.n
    ELSE IF f \in LiteralFields THEN v.s
    ELSE IF f \in BoolFields THEN v.s \in TrueStrings
    ELSE SecretStr(v.s)

----------------------------------------------------------------------------
(* Secret values: what the code can do with the value of a secret field *)

Mask == "**********"

\* str() with the secret shown as it is
str_unmasked(v) == v.value

\* str(v), also "{v}" in an f-string: a SecretStr renders as the mask (as
\* the empty string when it wraps the empty string), a bare str as itself,
\* None as "None"
str(v) ==
    IF v.wrapped THEN (IF v.value = "" THEN "" ELSE Mask) ELSE v.value

\* v.get_secret_value(); only a SecretStr has the accessor
get_secret_value(v) == v.value

\* bool(v), as in "if settings.OPENAI_API_KEY": None and empty values are
\* false
Truthy(v) == v # None /\ v.value # ""

----------------------------------------------------------------------------
(* Rendering of a float inside an f-string *)

Digit(d) ==
    CASE d = 0 -> "0" [] d = 1 -> "1" [] d = 2 -> "2" [] d = 3 -> "3"
      [] d = 4 -> "4" [] d = 5 -> "5" [] d = 6 -> "6" [] d = 7 -> "7"
      [] d = 8 -> "8" [] d = 9 -> "9"

RECURSIVE IntStr(_)
IntStr(n) == IF n < 10 THEN Digit(n) ELSE IntStr(n \div 10) \o Digit(n % 10)

\* "{x}": str() of a float, the shortest decimal that names it: at least
\* one fractional digit, no trailing zeros (1.1, 1.05, 1.0)
FloatStr(n) ==
    LET d1 == (n % 1000) \div 100
        d2 == (n % 100) \div 10
        d3 == n % 10
        frac == IF d3 # 0 THEN Digit(d1) \o Digit(d2) \o Digit(d3)
                ELSE IF d2 # 0 THEN Digit(d1) \o Digit(d2)
                ELSE Digit(d1)
    IN IntStr(n \div 1000) \o "." \o frac

\* "{x:.2f}": exactly two fractional digits (1.10, 1.05, 1.00)
FixedStr2(n) ==
    LET c == (n + 5) \div 10
    IN IntStr(c \div 100) \o "." \o Digit((c % 100) \div 10) \o Digit(c % 10)

----------------------------------------------------------------------------
(* Settings(): construction and validation *)

NoSnapshot == [f \in {} |-> 0]
NoError == [type |-> "none", fields |-> {}, msg |-> <<>>]

\* The outcomes of a construction.  ran records whether the model validator
\* was entered.
Ok(self) == [kind |-> "ok", snap |-> self, obj |-> 0, error |-> NoError, ran |-> TRUE]

\* raise ValueError(f"<literal>{value}"): the message is kept as the pair
\* of its literal part and its formatted value
Raise(literal, value) ==
    [kind |-> "error", snap |-> NoSnapshot, obj |-> 0, ran |-> TRUE,
     error |-> [type |-> "value_error", fields |-> {}, msg |-> <<literal, value>>]]

FieldErrors(errs) ==
    [kind |-> "error", snap |-> NoSnapshot, obj |-> 0, ran |-> FALSE,
     error |-> [type |-> "field", fields |-> errs, msg |-> <<>>]]

NoResult == [kind |-> "none", snap |-> NoSnapshot, obj |-> 0, error |-> NoError, ran |-> FALSE]

Abs(x) == IF x < 0 THEN -x ELSE x

One == 1000
Tolerance == 1

VRLiteral == "V^R weights must sum to 1.0, got "
FluencyLiteral == "Fluency weights must sum to 1.0, got "

\* validate_weight_sums without its second check
validate_weight_sums_vr_only(self) ==
    LET vr_sum == self["W_FLUENCY"] + self["W_DOMAIN"] + self["W_ADAPTIVE"]
    IN IF Abs(vr_sum - One) > Tolerance
       THEN Raise(VRLiteral, FloatStr(vr_sum))
       ELSE Ok(self)

\* validate_weight_sums with >= in place of >
validate_weight_sums_strict(self) ==
    LET vr_sum == self["W_FLUENCY"] + self["W_DOMAIN"] + self["W_ADAPTIVE"]
        fluency_sum == self["THETA_TECHNICAL"] + self["THETA_PRODUCTIVITY"]
                       + self["THETA_JUDGMENT"] + self["THETA_VELOCITY"]
    IN IF Abs(vr_sum - One) >= Tolerance
       THEN Raise(VRLiteral, FloatStr(vr_sum))
       ELSE IF Abs(fluency_sum - One) >= Tolerance
       THEN Raise(FluencyLiteral, FloatStr(fluency_sum))
       ELSE Ok(self)

\* validate_weight_sums with the two messages exchanged
validate_weight_sums_swapped(self) ==
    LET vr_sum == self["W_FLUENCY"] + self["W_DOMAIN"] + self["W_ADAPTIVE"]
        fluency_sum == self["THETA_TECHNICAL"] + self["THETA_PRODUCTIVITY"]
                       + self["THETA_JUDGMENT"] + self["THETA_VELOCITY"]
    IN IF Abs(vr_sum - One) > Tolerance
       THEN Raise(FluencyLiteral, FloatStr(vr_sum))
       ELSE IF Abs(fluency_sum - One) > Tolerance
       THEN Raise(VRLiteral, FloatStr(fluency_sum))
       ELSE Ok(self)

\* validate_weight_sums with the fluency group checked first
validate_weight_sums_fluency_first(self) ==
    LET vr_sum == self["W_FLUENCY"] + self["W_DOMAIN"] + self["W_ADAPTIVE"]
        fluency_sum == self["THETA_TECHNICAL"] + self["THETA_PRODUCTIVITY"]
                       + self["THETA_JUDGMENT"] + self["THETA_VELOCITY"]
    IN IF Abs(fluency_sum - One) > Tolerance
       THEN Raise(FluencyLiteral, FloatStr(fluency_sum))
       ELSE IF Abs(vr_sum - One) > Tolerance
       THEN Raise(VRLiteral, FloatStr(vr_sum))
       ELSE Ok(self)

\* @model_validator(mode='after')
validate_weight_sums(self) ==
    LET vr_sum == self["W_FLUENCY"] + self["W_DOMAIN"] + self["W_ADAPTIVE"]
        fluency_sum == self["THETA_TECHNICAL"] + self["THETA_PRODUCTIVITY"]
                       + self["THETA_JUDGMENT"] + self["THETA_VELOCITY"]
    IN IF Abs(vr_sum - One) > Tolerance
       THEN Raise(VRLiteral, FloatStr(vr_sum))
       ELSE IF Abs(fluency_sum - One) > Tolerance
       THEN Raise(FluencyLiteral, FloatStr(fluency_sum))
       ELSE Ok(self)

\* The value a field holds before it is validated
RawValue(f, v) ==
    IF v = Unset THEN Default(f)
    ELSE IF f \in FloatFields THEN (IF v.k = "num" THEN v.n ELSE Default(f))
    ELSE IF f \in LiteralFields THEN (IF v.k = "text" THEN v.s ELSE Default(f))
    ELSE IF f \in BoolFields THEN (v.k = "text" /\ v.s \in TrueStrings)
    ELSE SecretStr(v.s)

\* Settings() with the sums checked on the raw values, before the fields
Settings_sums_first(e) ==
    LET errs == {f \in Fields : e[f] # Unset /\ FieldError(f, e[f])}
        r == validate_weight_sums([f \in Fields |-> RawValue(f, e[f])])
    IN IF r.kind = "error" THEN r
       ELSE IF errs # {} THEN FieldErrors(errs)
       ELSE r

\* Settings() with a rejected override replaced by the field's default
Settings_fallback(e) ==
    LET errs == {f \in Fields : e[f] # Unset /\ FieldError(f, e[f])}
    IN validate_weight_sums(
           [f \in Fields |-> IF f \in errs THEN Default(f) ELSE FieldValue(f, e[f])])

\* Settings() under the overrides e: every field is validated, all field
\* errors are collected, and the mode='after' validator runs only when
\* there is none
Settings(e) ==
    LET errs == {f \in Fields : e[f] # Unset /\ FieldError(f, e[f])}
    IN IF errs # {} THEN FieldErrors(errs)
       ELSE validate_weight_sums([f \in Fields |-> FieldValue(f, e[f])])

----------------------------------------------------------------------------
(* Health checks: the data of source.py:874-969 *)

\* dependencies = {"database": ..., "redis": ..., "llm": ...}: the keys in
\* the order the dict is built, which is the order values() yields
Dependencies == <<"database", "redis", "llm">>
Deps == {Dependencies[i] : i \in 1..Len(Dependencies)}

\* Literal["healthy", "degraded", "unhealthy", "not_configured"]
Statuses == {"healthy", "degraded", "unhealthy", "not_configured"}

\* class DependencyStatus; latency_ms and error are Optional, None when
\* not given
DependencyStatus(name, status, latency_ms, error) ==
    [name |-> name, status |-> status, latency_ms |-> latency_ms, error |-> error]

\* A coroutine of the gather: not created, scheduled, suspended in its
\* await of asyncio.sleep, or finished.  out is "returned" once it has
\* returned a DependencyStatus and "raised" if an exception left it; slept
\* tells whether it reached the simulated network call.
NoStatus == DependencyStatus("", "none", None, None)
Idle == [pc |-> "idle", out |-> "none", res |-> NoStatus, slept |-> FALSE]
Scheduled == [pc |-> "scheduled", out |-> "none", res |-> NoStatus, slept |-> FALSE]
Awaiting == [pc |-> "awaiting", out |-> "none", res |-> NoStatus, slept |-> TRUE]
Returns(r, slept) == [pc |-> "done", out |-> "returned", res |-> r, slept |-> slept]
Raises(e, slept) ==
    [pc |-> "done", out |-> "raised", res |-> DependencyStatus("", "none", None, Text(e)),
     slept |-> slept]

\* The request that awaits detailed_health_check_func, if any
NoCheck == [pc |-> "idle", by |-> "none"]

NoResponse == [endpoint |-> "none", code |-> 0, body |-> [status |-> "none"]]

----------------------------------------------------------------------------
(* The dashboard session and the FastAPI instance: their data *)

\* pages, in the order of the sidebar's selectbox
pages ==
    <<"Introduction",
      "Task 1.1: Project Initialization",
      "Task 1.2: Configuration System",
      "Task 1.3: FastAPI Application",
      "Task 1.4: Health Check",
      "Common Mistakes & Troubleshooting">>

Pages == {pages[i] : i \in 1..Len(pages)}

\* A session key that holds None, and one that holds the output o
NoOutput == [set |-> FALSE]
Output(o) == [set |-> TRUE, content |-> o]

\* The session keys as the script initialises them on its first run;
\* fastapi_app_object is None (FALSE) or True
InitialSession ==
    [current_page |-> "Introduction",
     fastapi_app_object |-> FALSE,
     config_validation_output |-> NoOutput,
     fastapi_app_output |-> NoOutput,
     basic_health_output |-> NoOutput,
     detailed_health_output |-> NoOutput,
     readiness_output |-> NoOutput,
     liveness_output |-> NoOutput]

\* No FastAPI instance yet; no request served yet
NoApp == [created |-> FALSE]
NoExchange == [served |-> FALSE]

----------------------------------------------------------------------------
(* The process: environment, cache, session *)

NoHist == [first |-> 0, prev |-> 0, last |-> 0, cleared |-> FALSE, changed |-> FALSE]

Init ==
    /\ env = [f \in Fields |-> Unset]
    /\ heap = <<>>
    /\ cache = 0
    /\ settings_object = 0
    /\ result = NoResult
    /\ last_op = "start"
    /\ hist = NoHist
    /\ app = "not_imported"
    /\ settings = 0
    /\ probes = [d \in Deps |-> Idle]
    /\ hc = NoCheck
    /\ response = NoResponse
    /\ session = InitialSession
    /\ app_instance = NoApp
    /\ exchange = NoExchange

\* The variables the dashboard and the notebook write into os.environ, and
\* the values they and the tests give them
EnvWritten == {"W_FLUENCY", "W_DOMAIN", "W_ADAPTIVE", "OPENAI_API_KEY"}

EnvValues(f) ==
    CASE f = "W_FLUENCY" -> {Num(500)}
      [] f = "W_DOMAIN" -> {Num(400), Num(300)}
      [] f = "W_ADAPTIVE" -> {Num(200)}
      [] f = "OPENAI_API_KEY" -> {Text("sk-dummykey123")}
      [] f = "DEBUG" -> {Text("true"), Text("0")}

\* os.environ[f] = v with a cache that is dropped whenever a variable changes
SetEnv_invalidating(f, v) ==
    /\ env[f] # v
    /\ env' = [env EXCEPT ![f] = v]
    /\ cache' = 0
    /\ hist' = [hist EXCEPT !.changed = TRUE]
    /\ last_op' = "setenv"
    /\ UNCHANGED <<heap, settings_object, result>>
    /\ UNCHANGED hvars
    /\ UNCHANGED xvars

\* os.environ[f] = v
SetEnv(f, v) ==
    /\ env[f] # v
    /\ env' = [env EXCEPT ![f] = v]
    /\ hist' = [hist EXCEPT !.changed = TRUE]
    /\ last_op' = "setenv"
    /\ UNCHANGED <<heap, cache, settings_object, result>>
    /\ UNCHANGED hvars
    /\ UNCHANGED xvars

\* del os.environ[f]
DelEnv(f) ==
    /\ env[f] # Unset
    /\ env' = [env EXCEPT ![f] = Unset]
    /\ hist' = [hist EXCEPT !.changed = TRUE]
    /\ last_op' = "delenv"
    /\ UNCHANGED <<heap, cache, settings_object, result>>
    /\ UNCHANGED hvars
    /\ UNCHANGED xvars

\* Settings(): a direct construction; the object is not retained
NewSettings ==
    /\ result' = Settings(env)
    /\ last_op' = "Settings"
    /\ UNCHANGED <<env, heap, cache, settings_object, hist>>
    /\ UNCHANGED hvars
    /\ UNCHANGED xvars

\* The value get_settings() hands back, with the cache and heap it leaves:
\* a hit returns the cached object, a miss runs Settings() and stores the
\* object only when the construction returned
Returned(obj) == [kind |-> "ok", snap |-> NoSnapshot, obj |-> obj, error |-> NoError, ran |-> FALSE]

\* get_settings without @lru_cache: every call constructs
get_settings_uncached ==
    LET r == Settings(env)
    IN IF r.kind = "ok"
       THEN [res |-> [r EXCEPT !.obj = Len(heap) + 1, !.snap = NoSnapshot],
             cache |-> Len(heap) + 1,
             heap |-> Append(heap, r.snap)]
       ELSE [res |-> r, cache |-> cache, heap |-> heap]

\* get_settings() with a failed construction answered by an object of
\* defaults, which the cache keeps
get_settings_caching_failure ==
    IF cache # 0
    THEN [res |-> Returned(cache), cache |-> cache, heap |-> heap]
    ELSE LET r == Settings(env)
         IN [res |-> IF r.kind = "ok"
                     THEN [r EXCEPT !.obj = Len(heap) + 1, !.snap = NoSnapshot]
                     ELSE r,
             cache |-> Len(heap) + 1,
             heap |-> Append(heap, IF r.kind = "ok" THEN r.snap
                                   ELSE [f \in Fields |-> ValidatedDefault(f)])]

\* @lru_cache get_settings(): return Settings()
get_settings ==
    IF cache # 0
    THEN [res |-> Returned(cache), cache |-> cache, heap |-> heap]
    ELSE LET r == Settings(env)
         IN IF r.kind = "ok"
            THEN [res |-> [r EXCEPT !.obj = Len(heap) + 1, !.snap = NoSnapshot],
                  cache |-> Len(heap) + 1,
                  heap |-> Append(heap, r.snap)]
            ELSE [res |-> r, cache |-> cache, heap |-> heap]

\* get_settings() called while os.environ is e
get_settings_under(e) ==
    IF cache # 0
    THEN [res |-> Returned(cache), cache |-> cache, heap |-> heap]
    ELSE LET r == Settings(e)
         IN IF r.kind = "ok"
            THEN [res |-> [r EXCEPT !.obj = Len(heap) + 1, !.snap = NoSnapshot],
                  cache |-> Len(heap) + 1,
                  heap |-> Append(heap, r.snap)]
            ELSE [res |-> r, cache |-> cache, heap |-> heap]

\* Bookkeeping of the returns since the last cache_clear
Record(h, r) ==
    IF r.kind = "ok"
    THEN [first |-> IF h.first = 0 THEN r.obj ELSE h.first,
          prev |-> h.last, last |-> r.obj,
          cleared |-> FALSE, changed |-> FALSE]
    ELSE h

\* Whether the call was the first one after a cache_clear and a change of
\* the overrides
AfterClear == hist.cleared /\ hist.changed

\* settings = get_settings(), by any caller
GetSettingsCall ==
    LET g == get_settings
    IN /\ Len(g.heap) <= MaxObjects
       /\ result' = g.res
       /\ cache' = g.cache
       /\ heap' = g.heap
       /\ hist' = Record(hist, g.res)
       /\ last_op' = IF AfterClear THEN "get_settings_after_clear" ELSE "get_settings"
       /\ UNCHANGED <<env, settings_object>>
       /\ UNCHANGED hvars
       /\ UNCHANGED xvars

\* The sidebar's selectbox: a selection other than the current page is
\* stored and the script reruns
SelectPage(page_selection) ==
    /\ page_selection # session.current_page
    /\ session' = [session EXCEPT !.current_page = page_selection]
    /\ UNCHANGED cvars
    /\ UNCHANGED hvars
    /\ UNCHANGED <<app_instance, exchange>>

\* output_str of the "Load and Validate Settings" button
ConfigValidationOutput(self) ==
    [APP_ENV |-> self["APP_ENV"],
     weights |-> <<self["W_FLUENCY"], self["W_DOMAIN"], self["W_ADAPTIVE"]>>,
     sum |-> self["W_FLUENCY"] + self["W_DOMAIN"] + self["W_ADAPTIVE"],
     key |-> IF Truthy(self["OPENAI_API_KEY"])
             THEN "OpenAI API Key (masked): " \o str(self["OPENAI_API_KEY"])
             ELSE "OpenAI API Key is not configured."]

\* The button with the outcome of the call recorded whether or not it
\* returned
LoadAndValidateSettings_recording ==
    LET g == get_settings
    IN /\ session.current_page = "Task 1.2: Configuration System"
       /\ Len(g.heap) <= MaxObjects
       /\ result' = g.res
       /\ cache' = g.cache
       /\ heap' = g.heap
       /\ hist' = Record(hist, g.res)
       /\ settings_object' = IF g.res.kind = "ok" THEN g.res.obj ELSE settings_object
       /\ session' = [session EXCEPT !.config_validation_output =
              IF g.res.kind = "ok"
              THEN Output(ConfigValidationOutput(g.heap[g.res.obj]))
              ELSE Output(g.res.error)]
       /\ last_op' = IF AfterClear THEN "get_settings_after_clear" ELSE "get_settings"
       /\ UNCHANGED env
       /\ UNCHANGED hvars
       /\ UNCHANGED <<app_instance, exchange>>

\* The "Load and Validate Settings" button of the page Task 1.2: the
\* session keeps the object and the output only when get_settings()
\* returned; an exception ends the script run before either assignment
LoadAndValidateSettings ==
    LET g == get_settings
    IN /\ session.current_page = "Task 1.2: Configuration System"
       /\ Len(g.heap) <= MaxObjects
       /\ result' = g.res
       /\ cache' = g.cache
       /\ heap' = g.heap
       /\ hist' = Record(hist, g.res)
       /\ settings_object' = IF g.res.kind = "ok" THEN g.res.obj ELSE settings_object
       /\ session' = IF g.res.kind = "ok"
                     THEN [session EXCEPT !.config_validation_output =
                              Output(ConfigValidationOutput(g.heap[g.res.obj]))]
                     ELSE session
       /\ last_op' = IF AfterClear THEN "get_settings_after_clear" ELSE "get_settings"
       /\ UNCHANGED env
       /\ UNCHANGED hvars
       /\ UNCHANGED <<app_instance, exchange>>

\* get_settings.cache_clear()
cache_clear ==
    /\ Len(heap) < MaxObjects
    /\ cache' = 0
    /\ hist' = [NoHist EXCEPT !.cleared = TRUE]
    /\ last_op' = "cache_clear"
    /\ UNCHANGED <<env, heap, settings_object, result>>
    /\ UNCHANGED hvars
    /\ UNCHANGED xvars

\* current_settings.OPENAI_API_KEY = None, on the session's object
ClearApiKeyInPlace ==
    /\ settings_object # 0
    /\ heap[settings_object]["OPENAI_API_KEY"] # None
    /\ heap' = [heap EXCEPT ![settings_object]["OPENAI_API_KEY"] = None]
    /\ last_op' = "assign"
    /\ UNCHANGED <<env, cache, settings_object, result, hist>>
    /\ UNCHANGED hvars
    /\ UNCHANGED xvars

\* The three V^R variables of the demonstration and what it sets them to
BadWeights ==
    [f \in {"W_FLUENCY", "W_DOMAIN", "W_ADAPTIVE"} |->
        CASE f = "W_FLUENCY" -> Num(500)
          [] f = "W_DOMAIN" -> Num(400)
          [] f = "W_ADAPTIVE" -> Num(200)]

\* The finally block without its second loop
restore_deleting_only(e, original_env_vars) ==
    [f \in Fields |-> IF f \in DOMAIN BadWeights THEN Unset ELSE e[f]]

\* The finally block: the three variables are deleted, then those saved
\* in original_env_vars are set again
restore(e, original_env_vars) ==
    LET deleted == [f \in Fields |-> IF f \in DOMAIN BadWeights THEN Unset ELSE e[f]]
    IN [f \in Fields |->
           IF f \in DOMAIN original_env_vars THEN original_env_vars[f] ELSE deleted[f]]

\* simulate_bad_settings_load_output(): the variables that are set are
\* saved, the three are overwritten, Settings() runs, and the finally
\* block runs whether it raised or returned
SimulateBadSettingsLoad ==
    LET saved == {f \in DOMAIN BadWeights : env[f] # Unset}
        original_env_vars == [f \in saved |-> env[f]]
        overwritten == [f \in Fields |->
                           IF f \in DOMAIN BadWeights THEN BadWeights[f] ELSE env[f]]
    IN /\ result' = Settings(overwritten)
       /\ env' = restore(overwritten, original_env_vars)
       /\ last_op' = "simulate_bad_settings_load_output"
       /\ UNCHANGED <<heap, cache, settings_object, hist>>
       /\ UNCHANGED hvars
       /\ UNCHANGED xvars

dummy_api_key == "sk-xxxxxxxxxxxxxxxxxxxxxxxxxxxxxxxxxxxxxxxxxxxxxxxx"

\* simulate_secret_str_handling_output(): the key is set, get_settings()
\* is called, and the variable is put back after the call returned; a
\* call that raises leaves the function before the clean-up
SimulateSecretStrHandling ==
    LET original_openai_api_key == env["OPENAI_API_KEY"]
        during == [env EXCEPT !["OPENAI_API_KEY"] = Text(dummy_api_key)]
        g == get_settings_under(during)
    IN /\ Len(g.heap) <= MaxObjects
       /\ result' = g.res
       /\ cache' = g.cache
       /\ heap' = g.heap
       /\ hist' = Record(hist, g.res)
       /\ env' = IF g.res.kind = "ok"
                 THEN [during EXCEPT !["OPENAI_API_KEY"] = original_openai_api_key]
                 ELSE during
       /\ last_op' = "simulate_secret_str_handling_output"
       /\ UNCHANGED settings_object
       /\ UNCHANGED hvars
       /\ UNCHANGED xvars

\* The pages visited where only the configuration is exercised
ConfigPages == {"Introduction", "Task 1.2: Configuration System"}

Next ==
    \/ \E p \in ConfigPages : SelectPage(p)
    \/ \E f \in EnvWritten : \E v \in EnvValues(f) : SetEnv(f, v)
    \/ \E f \in EnvWritten : DelEnv(f)
    \/ NewSettings
    \/ GetSettingsCall
    \/ LoadAndValidateSettings
    \/ cache_clear
    \/ ClearApiKeyInPlace

Spec == Init /\ [][Next]_vars

\* The two demonstrations of the troubleshooting page, run in a process
\* that also changes the environment and calls get_settings()
NextDemo ==
    \/ \E f \in EnvWritten : \E v \in EnvValues(f) : SetEnv(f, v)
    \/ \E f \in EnvWritten : DelEnv(f)
    \/ GetSettingsCall
    \/ cache_clear
    \/ SimulateBadSettingsLoad
    \/ SimulateSecretStrHandling

SpecDemo == Init /\ [][NextDemo]_vars

----------------------------------------------------------------------------
(* Settings() as a function of the overrides it finds: the overrides are    *)
(* assembled, then the construction is run                                 *)

NumSet == Cardinality({f \in Fields : env[f] # Unset})

Override(f, v) ==
    /\ result = NoResult
    /\ env[f] = Unset
    /\ NumSet < MaxOverrides
    /\ env' = [env EXCEPT ![f] = v]
    /\ last_op' = "setenv"
    /\ UNCHANGED <<heap, cache, settings_object, result, hist>>
    /\ UNCHANGED hvars
    /\ UNCHANGED xvars

NextLoad ==
    \/ \E f \in Fields : \E v \in Candidates(f) : Override(f, v)
    \/ NewSettings

SpecLoad == Init /\ [][NextLoad]_vars

----------------------------------------------------------------------------
(* Health checks: probes, aggregation, readiness, liveness *)

NoException == "none"

\* What the awaited call of a probe can raise (a subclass of Exception)
Exceptions == {"ConnectionError"}

\* The latency a probe reports, in thousandths of a millisecond
Latency(d) ==
    CASE d = "database" -> 10000
      [] d = "redis" -> 5000
      [] d = "llm" -> 20000

\* check_database_notebook without its try/except
check_database_notebook_uncaught(e) ==
    IF e = NoException
    THEN Returns(DependencyStatus("database", "healthy", Num(Latency("database")), None), TRUE)
    ELSE Raises(e, TRUE)

\* check_database_notebook from the point where its await ends, normally
\* or by raising e
check_database_notebook(e) ==
    IF e = NoException
    THEN Returns(DependencyStatus("database", "healthy", Num(Latency("database")), None), TRUE)
    ELSE Returns(DependencyStatus("database", "unhealthy", None, Text(e)), TRUE)

\* check_redis_notebook reporting the time spent also when the call failed
check_redis_notebook_timed_failure(e) ==
    IF e = NoException
    THEN Returns(DependencyStatus("redis", "healthy", Num(Latency("redis")), None), TRUE)
    ELSE Returns(DependencyStatus("redis", "unhealthy", Num(Latency("redis")), Text(e)), TRUE)

check_redis_notebook(e) ==
    IF e = NoException
    THEN Returns(DependencyStatus("redis", "healthy", Num(Latency("redis")), None), TRUE)
    ELSE Returns(DependencyStatus("redis", "unhealthy", None, Text(e)), TRUE)

\* check_llm_notebook with the key looked at only after the call
check_llm_notebook_entry_call_first(key) == Awaiting

\* check_llm_notebook up to its first await: without a key it returns
\* before the call
check_llm_notebook_entry(key) ==
    IF ~Truthy(key)
    THEN Returns(DependencyStatus("llm", "not_configured", None,
                                  Text("OPENAI_API_KEY not set")), FALSE)
    ELSE Awaiting

check_llm_notebook(e) ==
    IF e = NoException
    THEN Returns(DependencyStatus("llm", "healthy", Num(Latency("llm")), None), TRUE)
    ELSE Returns(DependencyStatus("llm", "degraded", None, Text(e)), TRUE)

\* The loop over dependencies.values() with degraded ending the loop too
RECURSIVE overall_status_break_on_degraded(_, _, _)
overall_status_break_on_degraded(values, i, overall_status) ==
    IF i > Len(values) THEN overall_status
    ELSE IF values[i].status = "unhealthy" THEN "unhealthy"
    ELSE IF values[i].status = "degraded" THEN "degraded"
    ELSE IF values[i].status = "not_configured" /\ overall_status = "healthy"
    THEN overall_status_break_on_degraded(values, i + 1, "degraded")
    ELSE overall_status_break_on_degraded(values, i + 1, overall_status)

\* The loop over dependencies.values() without its not_configured branch
RECURSIVE overall_status_configured_only(_, _, _)
overall_status_configured_only(values, i, overall_status) ==
    IF i > Len(values) THEN overall_status
    ELSE IF values[i].status = "unhealthy" THEN "unhealthy"
    ELSE IF values[i].status = "degraded"
    THEN overall_status_configured_only(values, i + 1, "degraded")
    ELSE overall_status_configured_only(values, i + 1, overall_status)

\* for dep in dependencies.values(): from element i on, with the value
\* overall_status has so far; unhealthy breaks out of the loop
RECURSIVE overall_status(_, _, _)
overall_status(values, i, status_so_far) ==
    IF i > Len(values) THEN status_so_far
    ELSE IF values[i].status = "unhealthy" THEN "unhealthy"
    ELSE IF values[i].status = "degraded"
    THEN overall_status(values, i + 1, "degraded")
    ELSE IF values[i].status = "not_configured" /\ status_so_far = "healthy"
    THEN overall_status(values, i + 1, "degraded")
    ELSE overall_status(values, i + 1, status_so_far)

\* The DetailedHealthResponse built from the three results of the gather;
\* version, environment, timestamp and uptime are left out
detailed_health_check_func(db_status, redis_status, llm_status) ==
    LET dependencies ==
            [d \in Deps |-> CASE d = "database" -> db_status
                               [] d = "redis" -> redis_status
                               [] d = "llm" -> llm_status]
    IN [status |-> overall_status([i \in 1..Len(Dependencies) |->
                                      dependencies[Dependencies[i]]], 1, "healthy"),
        dependencies |-> dependencies]

\* raise HTTPException(status_code, detail), as the handler registered for
\* it answers
HTTPException(status_code, detail) ==
    [endpoint |-> "ready", code |-> status_code, body |-> detail]

\* readiness_check_func that lets a degraded service count as ready
readiness_check_func_unhealthy_only(health) ==
    IF health.status = "unhealthy"
    THEN HTTPException(503, [status |-> "not_ready",
                             reason |-> "Overall status: " \o health.status])
    ELSE [endpoint |-> "ready", code |-> 200, body |-> [status |-> "ready"]]

\* readiness_check_func once the detailed check it awaits has returned
readiness_check_func(health) ==
    IF health.status = "unhealthy" \/ health.status = "degraded"
    THEN HTTPException(503, [status |-> "not_ready",
                             reason |-> "Overall status: " \o health.status])
    ELSE [endpoint |-> "ready", code |-> 200, body |-> [status |-> "ready"]]

----------------------------------------------------------------------------
(* The application process: import of the module, requests on the health   *)
(* endpoints, the event loop running the probe coroutines                  *)

\* import of the module that defines the application and its routes: its
\* top level runs settings = get_settings() before anything else is
\* defined, so an exception of get_settings() ends the import and leaves
\* no module; a later import runs the top level again
ImportAppFactory ==
    LET g == get_settings
    IN /\ app # "imported"
       /\ Len(g.heap) <= MaxObjects
       /\ result' = g.res
       /\ cache' = g.cache
       /\ heap' = g.heap
       /\ hist' = Record(hist, g.res)
       /\ app' = IF g.res.kind = "ok" THEN "imported" ELSE "import_failed"
       /\ settings' = IF g.res.kind = "ok" THEN g.res.obj ELSE 0
       /\ last_op' = "import"
       /\ UNCHANGED <<env, settings_object, probes, hc, response>>
       /\ UNCHANGED xvars

\* A request on /health/detailed (by = "detailed") or on /health/ready
\* (by = "ready"): the handler calls asyncio.gather on the three probe
\* coroutines, which schedules all three, and suspends
HealthRequest(by) ==
    /\ app = "imported"
    /\ hc.pc # "gathering"
    /\ hc' = [pc |-> "gathering", by |-> by]
    /\ probes' = [d \in Deps |-> Scheduled]
    /\ response' = NoResponse
    /\ UNCHANGED cvars
    /\ UNCHANGED <<app, settings>>
    /\ UNCHANGED xvars

\* The event loop runs a scheduled probe up to its first await
ProbeEntry(d) ==
    /\ probes[d].pc = "scheduled"
    /\ probes' = [probes EXCEPT ![d] =
            IF d = "llm"
            THEN check_llm_notebook_entry(heap[settings]["OPENAI_API_KEY"])
            ELSE Awaiting]
    /\ UNCHANGED cvars
    /\ UNCHANGED <<app, settings, hc, response>>
    /\ UNCHANGED xvars

\* The await of a probe ends, normally or with exception e, and the probe
\* runs to its end
ProbeResume(d, e) ==
    /\ probes[d].pc = "awaiting"
    /\ probes' = [probes EXCEPT ![d] =
            CASE d = "database" -> check_database_notebook(e)
              [] d = "redis" -> check_redis_notebook(e)
              [] d = "llm" -> check_llm_notebook(e)]
    /\ UNCHANGED cvars
    /\ UNCHANGED <<app, settings, hc, response>>
    /\ UNCHANGED xvars

\* gather resuming its caller as soon as one coroutine is done
GatherDone_first == \E d \in Deps : probes[d].pc = "done"

\* gather resumes its caller when all three coroutines are done
GatherDone == \A d \in Deps : probes[d].pc = "done"

\* The handler resumes: an exception that left a probe leaves gather and
\* the handler (500); otherwise the results are aggregated and the
\* endpoint answers
GatherReturn ==
    /\ hc.pc = "gathering"
    /\ GatherDone
    /\ hc' = [hc EXCEPT !.pc = "done"]
    /\ response' =
          IF \E d \in Deps : probes[d].out = "raised"
          THEN [endpoint |-> hc.by, code |-> 500, body |-> [status |-> "error"]]
          ELSE LET health == detailed_health_check_func(probes["database"].res,
                                 probes["redis"].res, probes["llm"].res)
               IN IF hc.by = "ready"
                  THEN readiness_check_func(health)
                  ELSE [endpoint |-> "detailed", code |-> 200, body |-> health]
    /\ UNCHANGED cvars
    /\ UNCHANGED <<app, settings, probes>>
    /\ UNCHANGED xvars

\* A request on /health/live, sent to a process that has run its import:
\* liveness_check_func reads nothing, but the route exists only where the
\* import of the module succeeded
LivenessRequest ==
    /\ app # "not_imported"
    /\ response' =
          IF app = "imported"
          THEN [endpoint |-> "live", code |-> 200, body |-> [status |-> "alive"]]
          ELSE [endpoint |-> "live", code |-> 0, body |-> [status |-> "no_answer"]]
    /\ UNCHANGED cvars
    /\ UNCHANGED <<app, settings, probes, hc>>
    /\ UNCHANGED xvars

NextHealth ==
    \/ \E p \in ConfigPages : SelectPage(p)
    \/ \E f \in EnvWritten : \E v \in EnvValues(f) : SetEnv(f, v)
    \/ \E f \in EnvWritten : DelEnv(f)
    \/ ImportAppFactory
    \/ LoadAndValidateSettings
    \/ ClearApiKeyInPlace
    \/ \E by \in {"detailed", "ready"} : HealthRequest(by)
    \/ \E d \in Deps : ProbeEntry(d)
    \/ \E d \in Deps : \E e \in {NoException} \cup Exceptions : ProbeResume(d, e)
    \/ GatherReturn
    \/ LivenessRequest

SpecHealth == Init /\ [][NextHealth]_vars

----------------------------------------------------------------------------
(* The aggregation as a function of the three results: the application is  *)
(* imported under the defaults, a request is waiting in gather, and the    *)
(* probes have returned any DependencyStatus their type admits             *)

InitAggregate ==
    /\ env = [f \in Fields |-> Unset]
    /\ heap = <<[f \in Fields |-> ValidatedDefault(f)]>>
    /\ cache = 1
    /\ settings_object = 0
    /\ result = [kind |-> "ok", snap |-> NoSnapshot, obj |-> 1, error |-> NoError, ran |-> TRUE]
    /\ last_op = "import"
    /\ hist = Record(NoHist, Returned(1))
    /\ app = "imported"
    /\ settings = 1
    /\ \E st \in [Deps -> Statuses] :
           probes = [d \in Deps |-> Returns(DependencyStatus(d, st[d], None, None),
                                         st[d] # "not_configured")]
    /\ \E by \in {"detailed", "ready"} : hc = [pc |-> "gathering", by |-> by]
    /\ response = NoResponse
    /\ session = InitialSession
    /\ app_instance = NoApp
    /\ exchange = NoExchange

NextAggregate == GatherReturn

SpecAggregate == InitAggregate /\ [][NextAggregate]_vars

----------------------------------------------------------------------------
(* The dashboard: the pages Task 1.3 and Task 1.4 and their buttons *)

\* Task 1.3 shows its button unless settings_object is None
Task13Unlocked == settings_object # 0

\* The gate of Task 1.4 looking at the settings only
Task14Unlocked_settings_only == settings_object # 0

\* Task 1.4 shows its buttons unless settings_object or fastapi_app_object
\* is None
Task14Unlocked == settings_object # 0 /\ session.fastapi_app_object

\* "Simulate FastAPI Application Setup": the output is formatted from the
\* session's settings and the step is marked as done
SimulateFastAPISetup ==
    /\ session.current_page = "Task 1.3: FastAPI Application"
    /\ Task13Unlocked
    /\ session' = [session EXCEPT
           !.fastapi_app_output =
               Output([environment |-> heap[settings_object]["APP_ENV"]]),
           !.fastapi_app_object = TRUE]
    /\ UNCHANGED cvars
    /\ UNCHANGED hvars
    /\ UNCHANGED <<app_instance, exchange>>

\* "Run Basic Health Check (/health)"
RunBasicHealthCheck ==
    /\ session.current_page = "Task 1.4: Health Check"
    /\ Task14Unlocked
    /\ session' = [session EXCEPT !.basic_health_output =
           Output([status |-> "healthy",
                   environment |-> heap[settings_object]["APP_ENV"]])]
    /\ UNCHANGED cvars
    /\ UNCHANGED hvars
    /\ UNCHANGED <<app_instance, exchange>>

\* detailed_output of "Run Detailed Health Check (/health/detailed)": a
\* literal of the script, whatever the session's settings hold
detailed_output ==
    [status |-> "degraded",
     dependencies |->
         [d \in Deps |->
             CASE d = "database" ->
                     DependencyStatus("database", "healthy", Num(10000), None)
               [] d = "redis" ->
                     DependencyStatus("redis", "healthy", Num(5000), None)
               [] d = "llm" ->
                     DependencyStatus("llm", "not_configured", None,
                                      Text("OPENAI_API_KEY not set"))]]

RunDetailedHealthCheck ==
    /\ session.current_page = "Task 1.4: Health Check"
    /\ Task14Unlocked
    /\ session' = [session EXCEPT !.detailed_health_output = Output(detailed_output)]
    /\ UNCHANGED cvars
    /\ UNCHANGED hvars
    /\ UNCHANGED <<app_instance, exchange>>

\* readiness_output of "Run Readiness Probe (/health/ready)", with the
\* status code of the text it is shown under: also a literal
readiness_output ==
    [code |-> 503, status |-> "not_ready", reason |-> "Overall status: degraded"]

RunReadinessProbe ==
    /\ session.current_page = "Task 1.4: Health Check"
    /\ Task14Unlocked
    /\ session' = [session EXCEPT !.readiness_output = Output(readiness_output)]
    /\ UNCHANGED cvars
    /\ UNCHANGED hvars
    /\ UNCHANGED <<app_instance, exchange>>

\* "Run Liveness Probe (/health/live)"
RunLivenessProbe ==
    /\ session.current_page = "Task 1.4: Health Check"
    /\ Task14Unlocked
    /\ session' = [session EXCEPT !.liveness_output =
           Output([code |-> 200, status |-> "alive"])]
    /\ UNCHANGED cvars
    /\ UNCHANGED hvars
    /\ UNCHANGED <<app_instance, exchange>>

NextDashboard ==
    \/ \E p \in Pages : SelectPage(p)
    \/ \E f \in EnvWritten : \E v \in EnvValues(f) : SetEnv(f, v)
    \/ \E f \in EnvWritten : DelEnv(f)
    \/ LoadAndValidateSettings
    \/ ClearApiKeyInPlace
    \/ SimulateFastAPISetup
    \/ RunBasicHealthCheck
    \/ RunDetailedHealthCheck
    \/ RunReadinessProbe
    \/ RunLivenessProbe

SpecDashboard == Init /\ [][NextDashboard]_vars

----------------------------------------------------------------------------
(* The application factory and the requests the instance serves *)

MaxRequestId == 2     \* distinct values uuid4 returns in one run

\* create_app_notebook() with the documentation pages always on
create_app_notebook_docs_on(DEBUG) ==
    [created |-> TRUE,
     docs_url |-> "/docs",
     redoc_url |-> "/redoc",
     allow_origins |-> IF DEBUG THEN {"*"} ELSE {}]

\* create_app_notebook(): the documentation URLs and the CORS origins are
\* chosen by settings.DEBUG
create_app_notebook(DEBUG) ==
    [created |-> TRUE,
     docs_url |-> IF DEBUG THEN "/docs" ELSE "None",
     redoc_url |-> IF DEBUG THEN "/redoc" ELSE "None",
     allow_origins |-> IF DEBUG THEN {"*"} ELSE {}]

CreateApp ==
    /\ app = "imported"
    /\ app_instance' = create_app_notebook(heap[settings]["DEBUG"])
    /\ exchange' = NoExchange
    /\ UNCHANGED cvars
    /\ UNCHANGED hvars
    /\ UNCHANGED session

\* What the routing of a request ends in: a route returning a body, a
\* route raising ValueError, a route raising fastapi.HTTPException, or no
\* route, where the router raises Starlette's own HTTPException 404, a
\* superclass of the class the handler is registered for
Outcomes ==
    {[kind |-> "return", code |-> 200, detail |-> "Hello from API v1"],
     [kind |-> "return", code |-> 200, detail |-> "Hello from API v2 - enhanced!"],
     [kind |-> "ValueError", code |-> 0, detail |-> "This is a test ValueError"],
     [kind |-> "HTTPException", code |-> 403, detail |-> "HTTP Exception for status 403"],
     [kind |-> "HTTPException", code |-> 404, detail |-> "HTTP Exception for status 404"],
     [kind |-> "NotFound", code |-> 404, detail |-> "Not Found"]}

\* request.state as the exception handlers find it: the attribute
\* request_id, or nothing
NoState == [request_id |-> "None"]

\* getattr(request.state, 'request_id', None)
value_error_handler(state, exc) ==
    [status_code |-> 400,
     content |-> [detail |-> exc.detail, type |-> "validation_error",
                  request_id |-> state.request_id],
     headers |-> [h \in {} |-> ""]]

\* The handler run on a request whose state the middleware has not filled
http_exception_handler_stateless(state, exc) ==
    [status_code |-> exc.code,
     content |-> [detail |-> exc.detail, request_id |-> NoState.request_id],
     headers |-> [h \in {} |-> ""]]

http_exception_handler(state, exc) ==
    [status_code |-> exc.code,
     content |-> [detail |-> exc.detail, request_id |-> state.request_id],
     headers |-> [h \in {} |-> ""]]

\* call_next(request): the route, then the exception handler registered
\* for what it raised (the framework's own for the router's 404); the
\* handlers sit inside the middleware
call_next(state, o) ==
    CASE o.kind = "return" ->
            [status_code |-> o.code, content |-> [message |-> o.detail],
             headers |-> [h \in {} |-> ""]]
      [] o.kind = "ValueError" -> value_error_handler(state, o)
      [] o.kind = "HTTPException" -> http_exception_handler(state, o)
      [] o.kind = "NotFound" ->
            [status_code |-> o.code, content |-> [detail |-> o.detail],
             headers |-> [h \in {} |-> ""]]

\* f"{duration:.4f}" of a duration given in thousandths of a second
FixedStr4(n) ==
    IntStr(n \div 1000) \o "." \o Digit((n % 1000) \div 100)
        \o Digit((n % 100) \div 10) \o Digit(n % 10) \o "0"

\* str(uuid.uuid4()), for the n-th value uuid4 can return
UuidStr(n) == "00000000-0000-0000-0000-00000000000" \o Digit(n)

\* add_request_context: the id is stored in request.state before the
\* request goes on, and both headers are set on whatever comes back
add_request_context(n, duration, o) ==
    LET request_id == UuidStr(n)
        resp == call_next([request_id |-> request_id], o)
    IN [resp EXCEPT !.headers =
           [h \in DOMAIN resp.headers \cup {"X-Request-ID", "X-Process-Time"} |->
               IF h = "X-Request-ID" THEN request_id
               ELSE IF h = "X-Process-Time" THEN FixedStr4(duration)
               ELSE resp.headers[h]]]

\* The durations perf_counter measures, in thousandths of a second
Durations == {0, 100, 1234}

\* A request served by the instance
Request(n, duration, o) ==
    /\ app_instance.created
    /\ exchange' = [served |-> TRUE, outcome |-> o.kind,
                    response |-> add_request_context(n, duration, o)]
    /\ UNCHANGED cvars
    /\ UNCHANGED hvars
    /\ UNCHANGED <<session, app_instance>>

NextApi ==
    \/ \E v \in EnvValues("DEBUG") : SetEnv("DEBUG", v)
    \/ DelEnv("DEBUG")
    \/ ImportAppFactory
    \/ CreateApp
    \/ \E n \in 1..MaxRequestId : \E duration \in Durations : \E o \in Outcomes :
           Request(n, duration, o)

SpecApi == Init /\ [][NextApi]_vars

----------------------------------------------------------------------------
(* Properties of Settings(), checked under SpecLoad *)

Constructed == last_op = "Settings" /\ result.kind = "ok"
Failed == last_op = "Settings" /\ result.kind = "error"

VRSumOf(s) == s["W_FLUENCY"] + s["W_DOMAIN"] + s["W_ADAPTIVE"]
FluencySumOf(s) ==
    s["THETA_TECHNICAL"] + s["THETA_PRODUCTIVITY"] + s["THETA_JUDGMENT"]
    + s["THETA_VELOCITY"]

WithinTolerance(x) == 999 <= x /\ x <= 1001

\* C1: every Settings snapshot whose construction succeeded has its three
\* V^R weights and its four fluency weights each summing to 1.0 within 0.001.
C1_SumInvariants ==
    Constructed =>
        /\ WithinTolerance(VRSumOf(result.snap))
        /\ WithinTolerance(FluencySumOf(result.snap))

\* A construction that succeeded on overridden weights whose sums are off 1.0
C1_Witness ==
    /\ Constructed
    /\ env["W_FLUENCY"] # Unset
    /\ env["THETA_TECHNICAL"] # Unset
    /\ VRSumOf(result.snap) = 1001
    /\ FluencySumOf(result.snap) = 1001

OnlyVROverrides ==
    \A f \in Fields :
        env[f] # Unset <=> f \in {"W_FLUENCY", "W_DOMAIN", "W_ADAPTIVE"}

InUnit(v) == v.k = "num" /\ 0 <= v.n /\ v.n <= 1000

Message == result.error.msg[1] \o result.error.msg[2]

SumFailure == Failed /\ result.error.type = "value_error"

\* The field values the construction works on when no field is rejected
Effective(f) == IF env[f] = Unset THEN Default(f) ELSE env[f].n

EffVRSum == Effective("W_FLUENCY") + Effective("W_DOMAIN") + Effective("W_ADAPTIVE")
EffFluencySum ==
    Effective("THETA_TECHNICAL") + Effective("THETA_PRODUCTIVITY")
    + Effective("THETA_JUDGMENT") + Effective("THETA_VELOCITY")

\* C3: a weight-sum failure reports the actual sum to two decimal places; for
\* V^R weights 0.50/0.40/0.20 the message is "V^R weights must sum to 1.0,
\* got 1.10", for fluency weights 0.50/0.30/0.20/0.10 it is "Fluency weights
\* must sum to 1.0, got 1.10".
C3_TwoDecimalPlaces ==
    SumFailure =>
        /\ (Effective("W_FLUENCY") = 500 /\ Effective("W_DOMAIN") = 400
              /\ Effective("W_ADAPTIVE") = 200)
              => /\ result.error.msg[2] = FixedStr2(EffVRSum)
                 /\ Message = "V^R weights must sum to 1.0, got 1.10"
        /\ (EffVRSum = 1000 /\ Effective("THETA_TECHNICAL") = 500
              /\ Effective("THETA_PRODUCTIVITY") = 300
              /\ Effective("THETA_JUDGMENT") = 200
              /\ Effective("THETA_VELOCITY") = 100)
              => /\ result.error.msg[2] = FixedStr2(EffFluencySum)
                 /\ Message = "Fluency weights must sum to 1.0, got 1.10"

NoFieldRejected == last_op = "Settings" /\ result.error.type # "field"

\* C4: a weight-sum failure names the group that failed: the V^R group when
\* the V^R weights are off, the fluency group when the V^R weights are valid
\* and the fluency weights are off.
C4_GroupNamed ==
    NoFieldRejected =>
        /\ ~WithinTolerance(EffVRSum)
              => SumFailure /\ result.error.msg[1] = "V^R weights must sum to 1.0, got "
        /\ (WithinTolerance(EffVRSum) /\ ~WithinTolerance(EffFluencySum))
              => SumFailure /\ result.error.msg[1] = "Fluency weights must sum to 1.0, got "

\* The fluency group was named while the V^R weights, overridden, were valid
C4_Witness ==
    /\ SumFailure
    /\ env["W_FLUENCY"] = Num(500) /\ env["W_DOMAIN"] = Num(300)
    /\ env["THETA_VELOCITY"] = Num(250)
    /\ result.error.msg[1] = FluencyLiteral

Rejected(f) == env[f] # Unset /\ FieldError(f, env[f])

\* C5: when any field violates its own bound, the construction fails with a
\* field-level error whatever the other weights are, the weight-sum validator
\* is not run and the error carries no "must sum to 1.0" message.
C5_FieldChecksFirst ==
    (last_op = "Settings" /\ \E f \in Fields : Rejected(f))
    => /\ result.kind = "error"
       /\ result.error.type = "field"
       /\ result.error.fields = {f \in Fields : Rejected(f)}
       /\ ~result.ran
       /\ result.error.msg = <<>>

\* A weight of 1.5 was rejected at field level although the other weights
\* make both sums wrong as well
C5_Witness ==
    /\ Failed
    /\ env["W_FLUENCY"] = Num(1500)
    /\ env["W_DOMAIN"] = Num(400)
    /\ env["THETA_TECHNICAL"] = Num(500)
    /\ result.error.fields = {"W_FLUENCY"}

Between(lo, x, hi) == lo <= x /\ x <= hi

\* C6: every field of a successfully constructed snapshot satisfies its own
\* constraint.
C6_FieldBounds ==
    Constructed =>
        LET s == result.snap
        IN /\ s["DAILY_COST_BUDGET_USD"] >= 0
           /\ Between(0, s["COST_ALERT_THRESHOLD_PCT"], 1000)
           /\ \A w \in WeightFields : Between(0, s[w], 1000)
           /\ Between(500, s["ALPHA_VR_WEIGHT"], 700)
           /\ Between(50, s["BETA_SYNERGY_COEF"], 200)
           /\ Between(100, s["DELTA_POSITION"], 200)
           /\ Between(100, s["GAMMA_EXPERIENCE"], 250)
           /\ s["APP_ENV"] \in {"development", "staging", "production"}
           /\ s["LOG_LEVEL"] \in {"DEBUG", "INFO", "WARNING", "ERROR"}

\* A snapshot built from overrides that sit on their bounds
C6_Witness ==
    /\ Constructed
    /\ result.snap["ALPHA_VR_WEIGHT"] = 700
    /\ result.snap["GAMMA_EXPERIENCE"] = 100
    /\ result.snap["APP_ENV"] = "production"

\* The value an accepted override must show up as in the snapshot
Applied(f) ==
    IF f \in FloatFields THEN env[f].n
    ELSE IF f \in LiteralFields THEN env[f].s
    ELSE IF f \in BoolFields THEN env[f].s \in TrueStrings
    ELSE [wrapped |-> TRUE, value |-> env[f].s]

\* C8: a construction either returns a snapshot in which every override is
\* applied and every constraint holds, or raises and returns no snapshot; an
\* invalid override is never silently replaced by the default.
C8_AllOrNothing ==
    last_op = "Settings" =>
        \/ /\ result.kind = "ok"
           /\ \A f \in Fields : ~Rejected(f)
           /\ \A f \in Fields : env[f] # Unset => result.snap[f] = Applied(f)
           /\ \A f \in Fields : env[f] = Unset => result.snap[f] = ValidatedDefault(f)
           /\ WithinTolerance(EffVRSum) /\ WithinTolerance(EffFluencySum)
        \/ /\ result.kind = "error"
           /\ result.snap = NoSnapshot
           /\ \/ \E f \in Fields : Rejected(f)
              \/ ~WithinTolerance(EffVRSum)
              \/ ~WithinTolerance(EffFluencySum)

\* A construction raised on one invalid override among valid ones
C8_Witness ==
    /\ Failed
    /\ env["ALPHA_VR_WEIGHT"] = Num(701)
    /\ env["APP_ENV"] = Text("staging")
    /\ env["BETA_SYNERGY_COEF"] = Num(200)
    /\ result.snap = NoSnapshot

----------------------------------------------------------------------------
(* Secret fields of a constructed snapshot, checked under SpecLoad *)

\* C11: the string rendering of a secret value is the fixed mask
\* "**********" for every non-empty secret, whatever the secret is, and so
\* differs from the secret; get_secret_value() returns the secret unchanged.
C11_SecretMasked ==
    Constructed =>
        \A f \in SecretFields :
            (env[f] # Unset /\ env[f].s # "") =>
                /\ str(result.snap[f]) = Mask
                /\ str(result.snap[f]) # env[f].s
                /\ get_secret_value(result.snap[f]) = env[f].s

\* Two different keys were loaded in the run's states; this one is the key
\* of the spec's example
C11_Witness ==
    /\ Constructed
    /\ env["OPENAI_API_KEY"] = Text("sk-abc123")
    /\ str(result.snap["OPENAI_API_KEY"]) = "**********"
    /\ get_secret_value(result.snap["OPENAI_API_KEY"]) = "sk-abc123"

\* C12: in every constructed snapshot every secret-typed field that is set
\* is a SecretStr, whether its value came from an override or from the
\* field's default, so that printing the field shows the mask and not the
\* value.
C12_SetSecretsWrapped ==
    Constructed =>
        \A f \in SecretFields :
            result.snap[f] # None =>
                /\ result.snap[f].wrapped
                /\ result.snap[f].value # "" => str(result.snap[f]) = Mask

\* A snapshot with one key from an override and one from the default
C12_Witness ==
    /\ Constructed
    /\ env["OPENAI_API_KEY"] = Text("sk-dummykey123")
    /\ env["ANTHROPIC_API_KEY"] = Unset
    /\ result.snap["OPENAI_API_KEY"] = SecretStr("sk-dummykey123")
    /\ result.snap["ANTHROPIC_API_KEY"] = SecretStr("anthropic-xxxx")

NoOverrides == \A f \in Fields : env[f] = Unset

\* C13: with no overrides, OPENAI_API_KEY and ANTHROPIC_API_KEY of the
\* resulting snapshot are absent (None).
C13_ProvidersAbsentByDefault ==
    (Constructed /\ NoOverrides) =>
        /\ result.snap["OPENAI_API_KEY"] = None
        /\ result.snap["ANTHROPIC_API_KEY"] = None

----------------------------------------------------------------------------
(* Properties of the cache and of the objects it hands out, checked under  *)
(* Spec                                                                    *)

SnapshotValid(s) ==
    /\ WithinTolerance(VRSumOf(s))
    /\ WithinTolerance(FluencySumOf(s))
    /\ \A f \in FloatFields : s[f] >= Ge(f) /\ (HasLe(f) => s[f] <= Le(f))
    /\ \A f \in LiteralFields : s[f] \in Allowed(f)

\* C7: a Settings snapshot is read-only after construction: no operation
\* changes a field of an existing snapshot, so its field bounds and both
\* weight sums hold in every state after its construction.
C7_ReadOnly ==
    [][\A i \in 1..Len(heap) : heap'[i] = heap[i] /\ SnapshotValid(heap'[i])]_vars

GotSettings ==
    /\ last_op \in {"get_settings", "get_settings_after_clear"}
    /\ result.kind = "ok"

\* C9: two get_settings() calls with no invalidation in between return
\* snapshots with equal field values; the first call after the cache was
\* cleared and the overrides were changed returns a snapshot that reflects
\* the overrides current at that call.
C9_CachedLookup ==
    /\ (hist.prev # 0 /\ hist.last # 0) => heap[hist.prev] = heap[hist.last]
    /\ (last_op = "get_settings_after_clear" /\ result.kind = "ok")
          => \A f \in Fields :
                heap[result.obj][f] = IF env[f] = Unset THEN ValidatedDefault(f) ELSE Applied(f)

\* After a clear and changed overrides, two calls returned the second object,
\* whose weights differ from those of the object cached before the clear
C9_Witness ==
    /\ GotSettings
    /\ hist.prev = 2 /\ hist.last = 2
    /\ env["W_FLUENCY"] = Num(500)
    /\ heap[2]["W_FLUENCY"] = 500
    /\ heap[1]["W_FLUENCY"] = 450

\* C10: the cache holds at most one snapshot and loses it only by an explicit
\* invalidation: with no invalidation, whatever the override changes, every
\* get_settings() call returns the snapshot built by the first successful
\* call.
C10_OnlyExplicitInvalidation ==
    /\ hist.first # 0 => cache = hist.first
    /\ cache \in 0..Len(heap)
    /\ GotSettings => result.obj = hist.first

\* A repeated call returned the first snapshot although the overrides had
\* changed to other valid weights in between
C10_Witness ==
    /\ GotSettings
    /\ hist.prev # 0
    /\ result.obj = hist.first
    /\ env["W_FLUENCY"] = Num(500) /\ env["W_DOMAIN"] = Num(300)
    /\ heap[result.obj]["W_FLUENCY"] = 450

----------------------------------------------------------------------------
(* Properties of the aggregation and of readiness, checked under           *)
(* SpecAggregate                                                           *)

\* The statuses the three probes returned
Reported == {probes[d].res.status : d \in Deps}

\* The precedence rule: unhealthy, else degraded, else healthy
Precedence(S) ==
    IF "unhealthy" \in S THEN "unhealthy"
    ELSE IF "degraded" \in S \/ "not_configured" \in S THEN "degraded"
    ELSE "healthy"

Answered(endpoint) == hc.pc = "done" /\ response.endpoint = endpoint

\* C14: the overall status of a detailed health check is unhealthy if any
\* of the three results is unhealthy, otherwise degraded if any is degraded
\* or not_configured, otherwise healthy, for every combination of statuses.
C14_OverallStatus ==
    Answered("detailed") => response.body.status = Precedence(Reported)

\* An unhealthy result examined last, after a not_configured one
C14_Witness ==
    /\ Answered("detailed")
    /\ probes["database"].res.status = "not_configured"
    /\ probes["redis"].res.status = "healthy"
    /\ probes["llm"].res.status = "unhealthy"
    /\ response.body.status = "unhealthy"

Orders == {p \in [1..3 -> 1..3] : \A i, j \in 1..3 : p[i] = p[j] => i = j}

\* The results in the order the loop examines them
Examined == [i \in 1..3 |-> probes[Dependencies[i]].res]

\* C15: the overall status is the same for every order in which the same
\* three results are examined; unhealthy wins over degraded and
\* not_configured, and results that are only healthy or not_configured
\* never give unhealthy.
C15_OrderIndependent ==
    Answered("detailed") =>
        /\ \A p \in Orders :
               overall_status([i \in 1..3 |-> Examined[p[i]]], 1, "healthy")
                   = response.body.status
        /\ "unhealthy" \in Reported => response.body.status = "unhealthy"
        /\ Reported \subseteq {"healthy", "not_configured"}
               => response.body.status # "unhealthy"

\* A degraded result examined before an unhealthy one
C15_Witness ==
    /\ Answered("detailed")
    /\ probes["database"].res.status = "degraded"
    /\ probes["redis"].res.status = "unhealthy"
    /\ probes["llm"].res.status = "not_configured"
    /\ response.body.status = "unhealthy"

----------------------------------------------------------------------------
(* Properties of the probes and of the endpoints, checked under SpecHealth *)

KeyAbsent == settings # 0 /\ ~Truthy(heap[settings]["OPENAI_API_KEY"])

NotConfigured ==
    DependencyStatus("llm", "not_configured", None, Text("OPENAI_API_KEY not set"))

\* C17: when OPENAI_API_KEY is absent, the LLM probe returns status
\* not_configured with error "OPENAI_API_KEY not set" and no latency, and
\* it returns without having reached the simulated network call.
C17_LlmNotConfigured ==
    [][(probes["llm"].pc = "scheduled" /\ probes'["llm"].pc # "scheduled" /\ KeyAbsent)
          => /\ probes'["llm"].pc = "done"
             /\ probes'["llm"].out = "returned"
             /\ probes'["llm"].res = NotConfigured
             /\ probes'["llm"].res.latency_ms = None
             /\ ~probes'["llm"].slept]_vars

\* The LLM probe has returned not_configured while the database probe is
\* still in its call
C17_Witness ==
    /\ KeyAbsent
    /\ hc.pc = "gathering"
    /\ probes["llm"] = Returns(NotConfigured, FALSE)
    /\ probes["database"].pc = "awaiting"

\* C18: liveness always answers alive, whatever the configuration and the
\* probes do, also in a process where loading the configuration has never
\* succeeded.
C18_LivenessAlways ==
    response.endpoint = "live" => response.body.status = "alive"

\* The status the except branch of probe d gives
ExceptStatus(d) == IF d = "llm" THEN "degraded" ELSE "unhealthy"

\* C19: an exception raised inside a probe is caught by the probe and
\* becomes a result with an error description (unhealthy for database and
\* redis, degraded for llm); the results of all three probes are collected
\* and aggregated, and the detailed health check never raises.
C19_ProbeFailureContained ==
    /\ \A d \in Deps :
           probes[d].pc = "done" =>
               /\ probes[d].out = "returned"
               /\ probes[d].res.name = d
               /\ \/ probes[d].res.status = "healthy" /\ probes[d].res.error = None
                  \/ probes[d].res = NotConfigured
                  \/ /\ probes[d].res.status = ExceptStatus(d)
                     /\ \E e \in Exceptions : probes[d].res.error = Text(e)
    /\ response.code # 500
    /\ Answered("detailed") =>
           /\ response.code = 200
           /\ \A d \in Deps : response.body.dependencies[d] = probes[d].res
           /\ response.body.status = Precedence(Reported)

\* A detailed check answered although the database and the llm probe failed
C19_Witness ==
    /\ Answered("detailed")
    /\ response.body.dependencies["database"] =
           DependencyStatus("database", "unhealthy", None, Text("ConnectionError"))
    /\ response.body.dependencies["redis"].status = "healthy"
    /\ response.body.dependencies["llm"] =
           DependencyStatus("llm", "degraded", None, Text("ConnectionError"))
    /\ response.body.status = "unhealthy"

\* C20: the three probes of a detailed health check are issued together,
\* the overall status is computed only after all three have completed,
\* whatever the order of their completions, and the response holds exactly
\* one result per dependency, each under its own name.
C20_GatherAll ==
    /\ hc.pc = "gathering" => \A d \in Deps : probes[d].pc # "idle"
    /\ hc.pc = "done" => \A d \in Deps : probes[d].pc = "done"
    /\ Answered("detailed") =>
           /\ DOMAIN response.body.dependencies = Deps
           /\ \A d \in Deps :
                  /\ response.body.dependencies[d].name = d
                  /\ response.body.dependencies[d].status \in Statuses
                  /\ response.body.dependencies[d] = probes[d].res

\* The probe issued last has completed first, the database probe has
\* completed too, and the check is still waiting for redis
C20_Witness ==
    /\ hc = [pc |-> "gathering", by |-> "detailed"]
    /\ probes["llm"].pc = "done"
    /\ probes["database"].pc = "done"
    /\ probes["redis"].pc = "awaiting"
    /\ response = NoResponse

\* C21: in every probe result a latency is present only when the status is
\* healthy and an error description only when the status is not healthy: no
\* healthy result carries an error, no not_configured or failed result a
\* latency.
C21_LatencyErrorExclusive ==
    \A d \in Deps :
        (probes[d].pc = "done" /\ probes[d].out = "returned") =>
            /\ probes[d].res.latency_ms # None => probes[d].res.status = "healthy"
            /\ probes[d].res.error # None => probes[d].res.status # "healthy"

\* One probe failed, one succeeded, one was not configured
C21_Witness ==
    /\ probes["database"].pc = "done" /\ probes["database"].res.status = "unhealthy"
    /\ probes["database"].res.error = Text("ConnectionError")
    /\ probes["database"].res.latency_ms = None
    /\ probes["redis"].pc = "done" /\ probes["redis"].res.status = "healthy"
    /\ probes["redis"].res.latency_ms = Num(5000)
    /\ probes["redis"].res.error = None
    /\ probes["llm"].pc = "done" /\ probes["llm"].res = NotConfigured

----------------------------------------------------------------------------
(* Properties of the dashboard, checked under SpecDashboard *)

LoadFailed ==
    /\ last_op \in {"get_settings", "get_settings_after_clear"}
    /\ result.kind = "error"

\* C22: a click on "Load and Validate Settings" that fails validation
\* leaves the stored settings object as it was, records no output, and
\* leaves locked the steps that were locked; a session in which no load
\* has succeeded has no settings object, no success output and both gated
\* steps locked.
C22_FailedLoadNotConfigured ==
    [][(/\ session.current_page = "Task 1.2: Configuration System"
        /\ session'.current_page = session.current_page
        /\ env' = env
        /\ last_op' \in {"get_settings", "get_settings_after_clear"}
        /\ result'.kind = "error")
          => /\ settings_object' = settings_object
             /\ session' = session
             /\ (settings_object = 0 =>
                    (~Task13Unlocked' /\ ~Task14Unlocked'
                     /\ ~session'.config_validation_output.set))]_vars

\* The button was clicked on its page and the call raised on the V^R sum
C22_Witness ==
    /\ LoadFailed
    /\ result.error.type = "value_error"
    /\ session.current_page = "Task 1.2: Configuration System"
    /\ settings_object = 0
    /\ ~session.config_validation_output.set

KeyConfigured == settings_object # 0 /\ Truthy(heap[settings_object]["OPENAI_API_KEY"])

\* C23: on the health-check page, with an OpenAI key configured in the
\* session's settings (and the simulated database and redis healthy), the
\* detailed check shows overall healthy with llm healthy and the readiness
\* probe shows ready; not_ready is shown only for a degraded or unhealthy
\* overall status.
C23_DashboardFollowsAggregation ==
    KeyConfigured =>
        /\ session.detailed_health_output.set =>
               /\ session.detailed_health_output.content.status = "healthy"
               /\ session.detailed_health_output.content.dependencies["llm"].status
                      = "healthy"
        /\ session.readiness_output.set =>
               session.readiness_output.content.status = "ready"

\* C30: the application step is marked done only if settings have been
\* loaded, a health output is set only if both are set, and current_page is
\* one of the six pages.
C30_GatedSteps ==
    /\ session.fastapi_app_object => settings_object # 0
    /\ (\/ session.basic_health_output.set
        \/ session.detailed_health_output.set
        \/ session.readiness_output.set
        \/ session.liveness_output.set)
          => (settings_object # 0 /\ session.fastapi_app_object)
    /\ session.current_page \in Pages
    /\ Cardinality(Pages) = 6

\* All four health outputs recorded, after which another page was selected
C30_Witness ==
    /\ session.basic_health_output.set
    /\ session.detailed_health_output.set
    /\ session.readiness_output.set
    /\ session.liveness_output.set
    /\ session.fastapi_app_object
    /\ settings_object # 0
    /\ session.current_page = "Common Mistakes & Troubleshooting"

----------------------------------------------------------------------------
(* The order of the two sum checks, checked under SpecLoad *)

\* C27: the V^R sum is checked before the fluency sum and the first failure
\* ends validation: when both groups are off 1.0 by more than 0.001 the
\* error names only the V^R group, with the V^R sum, and the fluency sum is
\* reported only when the V^R sum is valid.
C27_VRCheckedFirst ==
    NoFieldRejected =>
        /\ (~WithinTolerance(EffVRSum) /\ ~WithinTolerance(EffFluencySum))
              => /\ SumFailure
                 /\ result.error.msg = <<VRLiteral, FloatStr(EffVRSum)>>
        /\ (SumFailure /\ result.error.msg[1] = FluencyLiteral)
              => /\ WithinTolerance(EffVRSum)
                 /\ result.error.msg[2] = FloatStr(EffFluencySum)

\* Both groups were off and the error named the V^R group with its sum
C27_Witness ==
    /\ SumFailure
    /\ env["W_FLUENCY"] # Unset /\ env["THETA_VELOCITY"] # Unset
    /\ ~WithinTolerance(EffVRSum)
    /\ ~WithinTolerance(EffFluencySum)
    /\ result.error.msg[1] = VRLiteral
    /\ result.error.msg[2] # FloatStr(EffFluencySum)

----------------------------------------------------------------------------
(* A failed get_settings() call, checked under Spec *)

GetSettingsStep == GetSettingsCall \/ LoadAndValidateSettings

\* C28: a get_settings() call that fails validation stores nothing: cache
\* and objects are as before the call; and a call made while the cache is
\* empty, as it is after a failed call, validates the overrides current at
\* that time, returning and caching the object built from them when they
\* are valid.
C28_FailureNotCached ==
    [][GetSettingsStep =>
          /\ result'.kind = "error" =>
                 /\ cache = 0 /\ cache' = 0 /\ heap' = heap
                 /\ result' = Settings(env)
          /\ cache = 0 =>
                 /\ result'.kind = Settings(env).kind
                 /\ result'.kind = "ok" =>
                        /\ cache' = result'.obj
                        /\ heap'[result'.obj] = Settings(env).snap]_vars

\* A call that failed on bad weights after an object had been built and
\* the cache cleared: the cache is empty, the earlier object is still there
C28_Witness ==
    /\ last_op \in {"get_settings", "get_settings_after_clear"}
    /\ result.kind = "error"
    /\ result.error.msg[1] = VRLiteral
    /\ cache = 0
    /\ Len(heap) = 1

----------------------------------------------------------------------------
(* The demonstrations of the troubleshooting page, checked under SpecDemo *)

\* C26: the get_settings() call of the secret-masking demonstration returns
\* a snapshot whose OPENAI_API_KEY is the key the demonstration has just
\* set, whatever get_settings() calls were made before.
C26_PicksUpNewKey ==
    (last_op = "simulate_secret_str_handling_output" /\ result.kind = "ok")
        => heap[result.obj]["OPENAI_API_KEY"] = SecretStr(dummy_api_key)

\* C29: simulate_bad_settings_load_output leaves W_FLUENCY, W_DOMAIN and
\* W_ADAPTIVE as they were before the call, the same value if set and
\* absent if unset, and changes no other environment variable.
C29_EnvironmentRestored ==
    [][SimulateBadSettingsLoad => env' = env]_vars

\* The demonstration has caught the V^R error while W_DOMAIN was set to
\* another value and W_ADAPTIVE was unset, and both are as they were
C29_Witness ==
    /\ last_op = "simulate_bad_settings_load_output"
    /\ result.kind = "error"
    /\ result.error.msg = <<VRLiteral, FloatStr(1100)>>
    /\ env["W_DOMAIN"] = Num(300)
    /\ env["W_ADAPTIVE"] = Unset
    /\ env["OPENAI_API_KEY"] # Unset

----------------------------------------------------------------------------
(* Properties of the application instance, checked under SpecApi *)

C25_DebugSwitches ==
    app_instance.created =>
        IF heap[settings]["DEBUG"]
        THEN /\ app_instance.docs_url = "/docs"
             /\ app_instance.redoc_url = "/redoc"
             /\ app_instance.allow_origins = {"*"}
        ELSE /\ app_instance.docs_url = "None"
             /\ app_instance.redoc_url = "None"
             /\ app_instance.allow_origins = {}

\* An instance created under DEBUG=true, taken from the environment
C25_Witness ==
    /\ app_instance.created
    /\ heap[settings]["DEBUG"]
    /\ app_instance.docs_url = "/docs"
    /\ app_instance.allow_origins = {"*"}

====
